---- MODULE Spec2Model ----
(***************************************************************************)
(* Numerical hyperparameters of BTB (btb/tuning/hyperparams/numerical.py): *)
(* FloatHyperParam and IntHyperParam, their constructors and their         *)
(* _transform / _inverse_transform / sample methods.                       *)
(*                                                                         *)
(* Numbers.  A Python float is modelled as an exact rational <<n, d>> in   *)
(* lowest terms with d > 0; d = 0 stands for a non-finite float (<<1,0>>   *)
(* is inf, <<-1,0>> is -inf, <<0,0>> is nan).  Rounding error of binary    *)
(* floating point is therefore not modelled: every statement checked here  *)
(* is a statement about the arithmetic the code writes down.  Integers of  *)
(* the stepped hyperparameter (min, max, step, the results of astype(int)) *)
(* are TLA+ integers.                                                      *)
(***************************************************************************)
EXTENDS Integers, Sequences, FiniteSets, TLC

VARIABLES
    hp,      \* the instance: a record of its attributes (self.*), or NoInstance / Raised
    args,    \* the arguments the constructor was called with
    call,    \* the public method that has just returned, "none" when no result is pending
    values,  \* the argument of that call (a sequence: the methods are element-wise)
    origin,  \* when `values` was the output of the previous transform: that call's input
    out      \* the value the call returned

vars == <<hp, args, call, values, origin, out>>

----------------------------------------------------------------------------
(* Bounds of the model *)

\* longest array handed to transform / inverse_transform, largest n_samples
MaxLen == 2
\* integer bounds given to IntHyperParam range over 0 .. MaxBound
MaxBound == 3
\* steps given to IntHyperParam range over 1 .. MaxStep
MaxStep == 2
\* normalized inputs are the multiples of 1 / GridDen ...
GridDen == 6
\* ... from -GridPad / GridDen to (GridDen + GridPad) / GridDen
GridPad == 1

----------------------------------------------------------------------------
(* Rational arithmetic: what the float operators of the code compute *)

Abs(n) == IF n < 0 THEN -n ELSE n

Sign(n) == IF n < 0 THEN -1 ELSE IF n > 0 THEN 1 ELSE 0

RECURSIVE GCD(_, _)
GCD(a, b) == IF b = 0 THEN a ELSE GCD(b, a % b)

\* the float n / d, in lowest terms; x / 0 is inf, -inf or nan
Rat(n, d) ==
    IF d = 0 THEN <<Sign(n), 0>>
    ELSE LET g == GCD(Abs(n), Abs(d))
         IN  <<Sign(d) * (n \div g), Abs(d) \div g>>

NaN == <<0, 0>>
PosInf == <<1, 0>>
NegInf == <<-1, 0>>

IsFinite(a) == a[2] # 0

\* an int converted to float
FromInt(i) == <<i, 1>>

RAdd(a, b) ==
    IF IsFinite(a) /\ IsFinite(b) THEN Rat(a[1] * b[2] + b[1] * a[2], a[2] * b[2]) ELSE NaN

RSub(a, b) ==
    IF IsFinite(a) /\ IsFinite(b) THEN Rat(a[1] * b[2] - b[1] * a[2], a[2] * b[2]) ELSE NaN

RMul(a, b) ==
    IF IsFinite(a) /\ IsFinite(b) THEN Rat(a[1] * b[1], a[2] * b[2]) ELSE NaN

\* numpy's array division: a finite value over zero is +-inf, 0 / 0 is nan
RDiv(a, b) ==
    IF IsFinite(a) /\ IsFinite(b) THEN Rat(a[1] * b[2], a[2] * b[1]) ELSE NaN

RNeg(a) == <<-a[1], a[2]>>

\* comparisons; every comparison with a non-finite operand of the model is false
RLe(a, b) == IsFinite(a) /\ IsFinite(b) /\ a[1] * b[2] <= b[1] * a[2]

RLt(a, b) == IsFinite(a) /\ IsFinite(b) /\ a[1] * b[2] < b[1] * a[2]

Half == Rat(1, 2)

\* int(x) of Python: truncation toward zero
IntOf(a) == Sign(a[1]) * (Abs(a[1]) \div a[2])

\* ndarray.round(): to the nearest integer, a tie to the even neighbour
Round(a) ==
    LET f == a[1] \div a[2]
        r == a[1] - f * a[2]
    IN  IF 2 * r < a[2] THEN f
        ELSE IF 2 * r > a[2] THEN f + 1
        ELSE IF f % 2 = 0 THEN f ELSE f + 1

Minimum(a, b) == IF a <= b THEN a ELSE b

Maximum(a, b) == IF a >= b THEN a ELSE b

----------------------------------------------------------------------------
(* Platform constants, scaled down to the integers TLC computes with *)

\* sys.float_info.max, the largest finite float (1.797e308 on the platform)
FLOAT_INFO_MAX == 128
\* 1 / sys.float_info.min: float_info.min is the smallest POSITIVE normal float
\* (2.225e-308 on the platform), here 1 / 64
FLOAT_INFO_MIN_INV == 64
\* sys.maxsize, the largest Py_ssize_t (2^63 - 1 on the platform)
MAXSIZE == 7

float_info_max == FromInt(FLOAT_INFO_MAX)

float_info_min == Rat(1, FLOAT_INFO_MIN_INV)

----------------------------------------------------------------------------
(* Constructor arguments *)

None == [tag |-> "None"]

Num(q) == [tag |-> "num", val |-> q]

IsNone(a) == a.tag = "None"

NoInstance == [cls |-> "NoInstance"]

\* the constructor raised (ZeroDivisionError): no instance exists
Raised == [cls |-> "Raised"]

----------------------------------------------------------------------------
(* FloatHyperParam *)

Float_K == 1

\* FloatHyperParam.__init__
Float_init(min, max, include_min, include_max) ==
    LET min1 == IF IsNone(min) \/ min.val = NegInf THEN float_info_min ELSE min.val
        max1 == IF IsNone(max) \/ max.val = PosInf THEN float_info_max ELSE max.val
    IN  [cls |-> "FloatHyperParam",
         include_min |-> include_min,
         include_max |-> include_max,
         min |-> min1,
         max |-> max1,
         range |-> RSub(max1, min1),
         K |-> Float_K]

\* _inverse_transform that forgets to add self.min
Float_inverse_transform_no_min(self, vs) ==
    [k \in DOMAIN vs |-> RMul(vs[k], self.range)]

\* FloatHyperParam._inverse_transform
Float_inverse_transform(self, vs) ==
    [k \in DOMAIN vs |-> RAdd(RMul(vs[k], self.range), self.min)]

\* FloatHyperParam._transform
Float_transform(self, vs) ==
    [k \in DOMAIN vs |-> RDiv(RSub(vs[k], self.min), self.range)]

\* FloatHyperParam.sample: `sampled` is what np.random.random((n_samples, K)) drew
Float_sample(self, sampled) == sampled

----------------------------------------------------------------------------
(* IntHyperParam *)

Int_K == 1

\* IntHyperParam.__init__; 1 / self.range divides Python floats and raises on zero
Int_init(min, max, include_min, include_max, step) ==
    LET min1 == IF IsNone(min) THEN RNeg(RDiv(FromInt(MAXSIZE), FromInt(2))) ELSE min.val
        max1 == IF IsNone(max) THEN RDiv(FromInt(MAXSIZE), FromInt(2)) ELSE max.val
        smin == IF include_min THEN IntOf(min1) ELSE IntOf(min1) + 1
        smax == IF include_max THEN IntOf(max1) ELSE IntOf(max1) - 1
        range == RAdd(RDiv(FromInt(smax - smin), FromInt(step)), FromInt(1))
    IN  IF range[1] = 0 THEN Raised
        ELSE [cls |-> "IntHyperParam",
              include_min |-> include_min,
              include_max |-> include_max,
              min |-> smin,
              max |-> smax,
              step |-> step,
              range |-> range,
              interval |-> RDiv(FromInt(1), range),
              K |-> Int_K]

\* _inverse_transform returning `rounded` instead of `restricted`
Int_inverse_transform_unrestricted(self, vs) ==
    [k \in DOMAIN vs |->
        Round(RAdd(RSub(RDiv(vs[k], self.interval), Half), FromInt(self.min)))]

\* IntHyperParam._inverse_transform
Int_inverse_transform(self, vs) ==
    [k \in DOMAIN vs |->
        LET unscaled_values ==
                RAdd(RSub(RDiv(vs[k], self.interval), Half), FromInt(self.min))
            rounded == Round(unscaled_values)
            restricted == Minimum(Maximum(rounded, self.min), self.max)
        IN  restricted]

\* _transform without the half-bucket offset
Int_transform_no_offset(self, vs) ==
    [k \in DOMAIN vs |-> RMul(FromInt(vs[k] - self.min), self.interval)]

\* IntHyperParam._transform
Int_transform(self, vs) ==
    [k \in DOMAIN vs |-> RMul(RAdd(FromInt(vs[k] - self.min), Half), self.interval)]

\* IntHyperParam.sample: `sampled` is what np.random.random((n_samples, K)) drew
Int_sample(self, sampled) ==
    LET inverted == Int_inverse_transform(self, sampled)
    IN  Int_transform(self, inverted)

----------------------------------------------------------------------------
(* Inputs *)

\* arrays of 1 .. n elements of S
Arrays(S, n) == UNION {[1..k -> S] : k \in 1..n}

\* normalized inputs, inside and just outside the unit interval
Grid == {Rat(k, GridDen) : k \in (-GridPad)..(GridDen + GridPad)}

\* what np.random.random can draw: floats of [0, 1)
Unit == {v \in Grid : RLe(FromInt(0), v) /\ RLt(v, FromInt(1))}

\* bounds given to FloatHyperParam
FloatBounds == {Rat(0, 1), Rat(1, 10), Rat(9, 10)}

FloatMinArgs == {None, Num(NegInf)} \cup {Num(q) : q \in FloatBounds}

FloatMaxArgs == {None, Num(PosInf)} \cup {Num(q) : q \in FloatBounds}

\* native values handed to FloatHyperParam.transform
FloatValues == FloatBounds \cup {Rat(-1, 1), Rat(4, 5), Rat(1, 1)}

\* bounds given to IntHyperParam
IntBoundArgs == {None} \cup {Num(FromInt(i)) : i \in 0..MaxBound}

\* native values handed to IntHyperParam.transform
IntValues == (-(MAXSIZE \div 2) - 1)..(MaxBound + 1)

----------------------------------------------------------------------------
(* Actions *)

Init ==
    /\ hp = NoInstance
    /\ args = None
    /\ call = "none"
    /\ values = <<>>
    /\ origin = <<>>
    /\ out = <<>>

\* hp = FloatHyperParam(min, max, include_min, include_max)
NewFloatHyperParam ==
    /\ hp = NoInstance
    /\ \E min \in FloatMinArgs, max \in FloatMaxArgs, include_min, include_max \in BOOLEAN :
          /\ hp' = Float_init(min, max, include_min, include_max)
          /\ args' = [min |-> min, max |-> max,
                      include_min |-> include_min, include_max |-> include_max]
    /\ UNCHANGED <<call, values, origin, out>>

\* the public methods: the base contract reshapes the argument and the result
\* around the hook and is not part of these operations

\* out = hp.transform(vs), hp a FloatHyperParam
FloatTransform ==
    /\ hp.cls = "FloatHyperParam"
    /\ call = "none"
    /\ \E vs \in Arrays(FloatValues, MaxLen) :
          /\ values' = vs
          /\ out' = Float_transform(hp, vs)
    /\ call' = "transform"
    /\ origin' = <<>>
    /\ UNCHANGED <<hp, args>>

\* out = hp.inverse_transform(vs), hp a FloatHyperParam
FloatInverseTransform ==
    /\ hp.cls = "FloatHyperParam"
    /\ call = "none"
    /\ \E vs \in Arrays(Grid, MaxLen) :
          /\ values' = vs
          /\ out' = Float_inverse_transform(hp, vs)
    /\ call' = "inverse_transform"
    /\ origin' = <<>>
    /\ UNCHANGED <<hp, args>>

\* out = hp.inverse_transform(out): the result of the last transform is handed back
FloatInverseOfTransformed ==
    /\ hp.cls = "FloatHyperParam"
    /\ call = "transform"
    /\ values' = out
    /\ out' = Float_inverse_transform(hp, out)
    /\ call' = "inverse_transform"
    /\ origin' = values
    /\ UNCHANGED <<hp, args>>

\* out = hp.sample(n); `values` records the n draws of the random source
FloatSample ==
    /\ hp.cls = "FloatHyperParam"
    /\ call = "none"
    /\ \E n \in 0..MaxLen : \E sampled \in [1..n -> Unit] :
          /\ values' = sampled
          /\ out' = Float_sample(hp, sampled)
    /\ call' = "sample"
    /\ origin' = <<>>
    /\ UNCHANGED <<hp, args>>

\* hp = IntHyperParam(min, max, include_min, include_max, step)
NewIntHyperParam ==
    /\ hp = NoInstance
    /\ \E min \in IntBoundArgs, max \in IntBoundArgs, include_min, include_max \in BOOLEAN,
          step \in 1..MaxStep :
          /\ hp' = Int_init(min, max, include_min, include_max, step)
          /\ args' = [min |-> min, max |-> max,
                      include_min |-> include_min, include_max |-> include_max,
                      step |-> step]
    /\ UNCHANGED <<call, values, origin, out>>

\* out = hp.transform(vs), hp an IntHyperParam
IntTransform ==
    /\ hp.cls = "IntHyperParam"
    /\ call = "none"
    /\ \E vs \in Arrays(IntValues, MaxLen) :
          /\ values' = vs
          /\ out' = Int_transform(hp, vs)
    /\ call' = "transform"
    /\ origin' = <<>>
    /\ UNCHANGED <<hp, args>>

\* out = hp.inverse_transform(vs), hp an IntHyperParam
IntInverseTransform ==
    /\ hp.cls = "IntHyperParam"
    /\ call = "none"
    /\ \E vs \in Arrays(Grid, MaxLen) :
          /\ values' = vs
          /\ out' = Int_inverse_transform(hp, vs)
    /\ call' = "inverse_transform"
    /\ origin' = <<>>
    /\ UNCHANGED <<hp, args>>

\* out = hp.inverse_transform(out): the result of the last transform is handed back
IntInverseOfTransformed ==
    /\ hp.cls = "IntHyperParam"
    /\ call = "transform"
    /\ values' = out
    /\ out' = Int_inverse_transform(hp, out)
    /\ call' = "inverse_transform"
    /\ origin' = values
    /\ UNCHANGED <<hp, args>>

\* sample that stores the number of samples in self.K
IntSample_stores_n ==
    /\ hp.cls = "IntHyperParam"
    /\ call = "none"
    /\ \E n \in 0..MaxLen : \E sampled \in [1..n -> Unit] :
          /\ values' = sampled
          /\ out' = Int_sample(hp, sampled)
          /\ hp' = [hp EXCEPT !.K = n]
    /\ call' = "sample"
    /\ origin' = <<>>
    /\ UNCHANGED args

\* out = hp.sample(n); `values` records the n draws of the random source
IntSample ==
    /\ hp.cls = "IntHyperParam"
    /\ call = "none"
    /\ \E n \in 0..MaxLen : \E sampled \in [1..n -> Unit] :
          /\ values' = sampled
          /\ out' = Int_sample(hp, sampled)
    /\ call' = "sample"
    /\ origin' = <<>>
    /\ UNCHANGED <<hp, args>>

\* the caller has taken the result of the last call; the instance is idle again
Return ==
    /\ call # "none"
    /\ call' = "none"
    /\ values' = <<>>
    /\ origin' = <<>>
    /\ out' = <<>>
    /\ UNCHANGED <<hp, args>>

Next ==
    \/ NewFloatHyperParam
    \/ FloatTransform
    \/ FloatInverseTransform
    \/ FloatInverseOfTransformed
    \/ FloatSample
    \/ NewIntHyperParam
    \/ IntTransform
    \/ IntInverseTransform
    \/ IntInverseOfTransformed
    \/ IntSample
    \/ Return

Spec == Init /\ [][Next]_vars

\* the stepped variant alone
NextInt ==
    \/ NewIntHyperParam
    \/ IntTransform
    \/ IntInverseTransform
    \/ IntInverseOfTransformed
    \/ IntSample
    \/ Return

SpecInt == Init /\ [][NextInt]_vars

----------------------------------------------------------------------------
(* Properties *)

IsFloat == hp.cls = "FloatHyperParam"

IsInt == hp.cls = "IntHyperParam"

Zero == FromInt(0)

One == FromInt(1)

\* the legal values of a stepped hyperparameter: {min, min + step, ..., max}
Lattice(self) == {i \in self.min..self.max : (i - self.min) % self.step = 0}

\* the effective bounds are in order and a whole number of steps apart
Divisible(self) == self.min <= self.max /\ (self.max - self.min) % self.step = 0

\* C1: round-trip identity of the stepped variant.  Whenever inverse_transform
\* is applied to the result of transform, every element that was a legal
\* lattice integer i (min <= i <= max, i = min + k * step on the effective
\* bounds) comes back as exactly i.
C1_RoundTripStepped ==
    (IsInt /\ call = "inverse_transform" /\ origin # <<>>) =>
        \A k \in DOMAIN origin : origin[k] \in Lattice(hp) => out[k] = origin[k]

\* a round trip of the upper bound of a lattice with step > 1 and an excluded min
C1_Witness ==
    /\ IsInt /\ call = "inverse_transform" /\ origin # <<>>
    /\ ~IsNone(args.min) /\ ~IsNone(args.max)
    /\ hp.step > 1 /\ Divisible(hp) /\ hp.min < hp.max /\ ~args.include_min
    /\ \E k \in DOMAIN origin : origin[k] = hp.max /\ out[k] = hp.max

\* C2: every value sample(n) of a stepped hyperparameter returns is transform(i)
\* of some legal lattice point i in {min, min + step, ..., max}.
C2_SamplesOnLattice ==
    (IsInt /\ Divisible(hp) /\ call = "sample") =>
        \A k \in DOMAIN out :
            \E i \in Lattice(hp) : out[k] = Int_transform(hp, <<i>>)[1]

\* C3: with effective min <= max, inverse_transform of any normalized input,
\* inside or outside [0, 1], returns integers of [min, max].
C3_InverseWithinBounds ==
    (IsInt /\ hp.min <= hp.max /\ call = "inverse_transform") =>
        \A k \in DOMAIN out : hp.min <= out[k] /\ out[k] <= hp.max

\* inputs above 1 and below 0 in one call, pulled back to max and to min
C3_Witness ==
    /\ IsInt /\ hp.min < hp.max /\ call = "inverse_transform"
    /\ \E k \in DOMAIN values : RLt(One, values[k]) /\ out[k] = hp.max
    /\ \E k \in DOMAIN values : RLt(values[k], Zero) /\ out[k] = hp.min

\* C4: boundary clamp of the stepped variant (any step dividing max - min):
\* every v with 0 <= v < interval, 0.0 included, resolves to min, and every v
\* with 1 - interval < v <= 1, 1.0 included, resolves to max.
C4_BoundaryClamp ==
    (IsInt /\ Divisible(hp) /\ call = "inverse_transform") =>
        \A k \in DOMAIN values :
            /\ (RLe(Zero, values[k]) /\ RLt(values[k], hp.interval)) => out[k] = hp.min
            /\ (RLt(RSub(One, hp.interval), values[k]) /\ RLe(values[k], One))
                   => out[k] = hp.max

\* C5: transform maps the native domain into [0, 1): every v of [min, max] of a
\* continuous hyperparameter, and every legal lattice value of a stepped one
\* (step dividing max - min), has 0 <= transform(v) < 1.
C5_TransformIntoUnit ==
    (call = "transform") =>
        \A k \in DOMAIN values :
            ( \/ IsFloat /\ RLe(hp.min, values[k]) /\ RLe(values[k], hp.max)
              \/ IsInt /\ Divisible(hp) /\ values[k] \in Lattice(hp) )
            => (RLe(Zero, out[k]) /\ RLt(out[k], One))

\* a continuous hyperparameter built with explicit finite bounds min < max
ExplicitFloat ==
    /\ IsFloat
    /\ ~IsNone(args.min) /\ ~IsNone(args.max)
    /\ RLt(args.min.val, args.max.val)

InBounds(v) == RLe(args.min.val, v) /\ RLe(v, args.max.val)

\* C6: for a continuous hyperparameter with explicit finite bounds min < max and
\* v in [min, max]: transform(v) = (v - min) / (max - min), so transform(min) = 0
\* and transform(max) = 1; inverse_transform(transform(v)) = v; and
\* inverse_transform does not clamp: a normalized input outside [0, 1] gives a
\* native value outside [min, max].
C6_ContinuousRoundTrip ==
    ExplicitFloat =>
        /\ (call = "transform") =>
               \A k \in DOMAIN values : InBounds(values[k]) =>
                   /\ out[k] = RDiv(RSub(values[k], args.min.val),
                                    RSub(args.max.val, args.min.val))
                   /\ (values[k] = args.min.val => out[k] = Zero)
                   /\ (values[k] = args.max.val => out[k] = One)
        /\ (call = "inverse_transform" /\ origin # <<>>) =>
               \A k \in DOMAIN origin : InBounds(origin[k]) => out[k] = origin[k]
        /\ (call = "inverse_transform") =>
               \A k \in DOMAIN values :
                   (RLt(values[k], Zero) \/ RLt(One, values[k])) => ~InBounds(out[k])

\* a round trip of a value strictly inside [min, max], min not zero
C6_Witness ==
    /\ ExplicitFloat /\ call = "inverse_transform" /\ origin # <<>>
    /\ args.min.val # Zero
    /\ \E k \in DOMAIN origin :
          /\ RLt(args.min.val, origin[k]) /\ RLt(origin[k], args.max.val)
          /\ out[k] = origin[k]

\* C7: every instance construction returns has min <= max and range > 0.
C7_ValidBounds ==
    /\ IsFloat => (RLe(hp.min, hp.max) /\ RLt(Zero, hp.range))
    /\ IsInt => (hp.min <= hp.max /\ RLt(Zero, hp.range))

\* C8: a continuous hyperparameter built without min (or with -inf) stores the
\* negation of the largest finite float, a value below zero; built without max
\* (or with inf) it stores the largest finite float; the two are symmetric.
C8_UnboundedSubstitution ==
    IsFloat =>
        LET nomin == IsNone(args.min) \/ args.min.val = NegInf
            nomax == IsNone(args.max) \/ args.max.val = PosInf
        IN  /\ nomin => (hp.min = RNeg(float_info_max) /\ RLt(hp.min, Zero))
            /\ nomax => hp.max = float_info_max
            /\ (nomin /\ nomax) => hp.min = RNeg(hp.max)

\* C9: an excluded bound of a stepped hyperparameter moves inward by one step:
\* the stored min is the given min + step, the stored max the given max - step.
C9_ExclusionByStep ==
    IsInt =>
        /\ (~IsNone(args.min) /\ ~args.include_min)
               => hp.min = IntOf(args.min.val) + args.step
        /\ (~IsNone(args.max) /\ ~args.include_max)
               => hp.max = IntOf(args.max.val) - args.step

\* C10: once constructed, no call of transform, inverse_transform or sample
\* (nor the caller taking its result) changes any attribute of the instance.
C10_Immutable ==
    [][(IsFloat \/ IsInt) => hp' = hp]_vars

\* the second call of a sequence has returned: transform, then inverse_transform
C10_Witness ==
    /\ (IsFloat \/ IsInt)
    /\ call = "inverse_transform" /\ origin # <<>> /\ Len(out) = MaxLen

====
